---- MODULE Spec2Model ----
(***************************************************************************)
(* Salary-string normalisation (cleaning.py) and cost-of-living adjustment *)
(* (analysis.py) of the job-postings analysis project.                     *)
(*                                                                         *)
(* Strings are sequences of one-character strings.  A float that the       *)
(* program holds after round(x, 2) is the sequence of decimal digits of    *)
(* its value in hundredths, most significant digit first, without leading  *)
(* zeros (<<0>> is 0.0, <<1,2,3,4>> is 12.34), so that the k and m         *)
(* multipliers and the x1920 annualisation never meet an integer width.    *)
(***************************************************************************)
EXTENDS Integers, Sequences, FiniteSets, TLC

VARIABLES
    salary_string,   \* the salary text handed to the cleaning functions
    salaries_in,     \* the magnitude list handed to determine_payment_frequency
    pc,              \* which call has returned last
    salaries,        \* what find_salary returned
    frequency,       \* what determine_payment_frequency returned
    classify_args,   \* the list det_salary_range_and_frequency classified
    d,               \* what det_salary_range_and_frequency returned
    comp,            \* what calc_min_comp / calc_max_comp returned
    job_df,          \* the caller's job table
    cli_df,          \* the caller's cost-of-living-by-city table
    cli_state_df,    \* the caller's cost-of-living-by-state table
    city,            \* the reference city of the last calculate_adjusted_salary
    adjusted         \* what calculate_adjusted_salary returned

cleaning_vars == <<salary_string, salaries_in, pc, salaries, frequency,
                   classify_args, d, comp>>
analysis_vars == <<job_df, cli_df, cli_state_df, city, adjusted>>
vars == <<salary_string, salaries_in, pc, salaries, frequency, classify_args,
          d, comp, job_df, cli_df, cli_state_df, city, adjusted>>

----------------------------------------------------------------------------
(* Bounds of the model *)

\* longest salary string of the character-level inputs
MaxLen == 5
\* most pieces in a salary string of the cue-level inputs
MaxPieces == 3
\* most rows of the job table
MaxJobs == 2

----------------------------------------------------------------------------
(* Characters and strings *)

Digits == {"0", "1", "2", "3", "4", "5", "6", "7", "8", "9"}

DigitVal ==
    "0" :> 0 @@ "1" :> 1 @@ "2" :> 2 @@ "3" :> 3 @@ "4" :> 4 @@
    "5" :> 5 @@ "6" :> 6 @@ "7" :> 7 @@ "8" :> 8 @@ "9" :> 9

\* str.lower() on one character
LowerOf ==
    "A" :> "a" @@ "B" :> "b" @@ "C" :> "c" @@ "D" :> "d" @@ "E" :> "e" @@
    "F" :> "f" @@ "G" :> "g" @@ "H" :> "h" @@ "I" :> "i" @@ "J" :> "j" @@
    "K" :> "k" @@ "L" :> "l" @@ "M" :> "m" @@ "N" :> "n" @@ "O" :> "o" @@
    "P" :> "p" @@ "Q" :> "q" @@ "R" :> "r" @@ "S" :> "s" @@ "T" :> "t" @@
    "U" :> "u" @@ "V" :> "v" @@ "W" :> "w" @@ "X" :> "x" @@ "Y" :> "y" @@
    "Z" :> "z"

lower(s) == [i \in 1..Len(s) |-> IF s[i] \in DOMAIN LowerOf THEN LowerOf[s[i]] ELSE s[i]]

\* s.replace(',', '')
strip_commas(s) == SelectSeq(s, LAMBDA c : c # ",")

\* sub occurs in s at position p (1-based)
OccursAt(sub, s, p) ==
    /\ p >= 1
    /\ p + Len(sub) - 1 <= Len(s)
    /\ \A i \in 1..Len(sub) : s[p + i - 1] = sub[i]

\* Python's  sub in s
contains(s, sub) == \E p \in 1..(Len(s) - Len(sub) + 1) : OccursAt(sub, s, p)

\* Python's  s.index(sub), 1-based; sub is known to occur
index(s, sub) ==
    CHOOSE p \in 1..(Len(s) - Len(sub) + 1) :
        /\ OccursAt(sub, s, p)
        /\ \A q \in 1..(p - 1) : ~OccursAt(sub, s, q)

----------------------------------------------------------------------------
(* Decimal arithmetic on hundredths *)

RECURSIVE Norm(_)
Norm(ds) ==
    IF ds = <<>> THEN <<0>>
    ELSE IF Len(ds) > 1 /\ ds[1] = 0 THEN Norm(Tail(ds))
    ELSE ds

Front(ds) == SubSeq(ds, 1, Len(ds) - 1)

RECURSIVE Succ(_)
Succ(ds) ==
    IF ds = <<>> THEN <<1>>
    ELSE IF ds[Len(ds)] < 9 THEN [ds EXCEPT ![Len(ds)] = @ + 1]
    ELSE Succ(Front(ds)) \o <<0>>

RECURSIVE NatDigits(_)
NatDigits(n) == IF n < 10 THEN <<n>> ELSE NatDigits(n \div 10) \o <<n % 10>>

RECURSIVE LexLess(_, _)
LexLess(a, b) ==
    /\ a # <<>>
    /\ \/ a[1] < b[1]
       \/ a[1] = b[1] /\ LexLess(Tail(a), Tail(b))

\* a < b, a <= b on normalised digit sequences
Less(a, b) == Len(a) < Len(b) \/ (Len(a) = Len(b) /\ LexLess(a, b))
Leq(a, b) == a = b \/ Less(a, b)

RECURSIVE TimesCarry(_, _, _)
TimesCarry(ds, n, carry) ==
    IF ds = <<>> THEN (IF carry = 0 THEN <<>> ELSE NatDigits(carry))
    ELSE LET p == ds[Len(ds)] * n + carry
         IN  TimesCarry(Front(ds), n, p \div 10) \o <<p % 10>>

\* x * n
Times(ds, n) == Norm(TimesCarry(ds, n, 0))

\* the float n (a whole number) in hundredths
Whole(n) == Norm(NatDigits(n) \o <<0, 0>>)

----------------------------------------------------------------------------
(* cleaning.py: find_salary *)

\* a call's outcome: the value returned, or the exception raised
Return(v) == [exc |-> "None", val |-> v]
Raise(e, empty) == [exc |-> e, val |-> empty]

\* the characters of the class [\d(\.\d)?]
pattern == Digits \cup {"(", ".", ")", "?"}

\* re.findall(pattern, s) from position i on, cur being the run scanned so far
RECURSIVE findall(_, _, _)
findall(s, i, cur) ==
    LET done == IF cur = <<>> THEN <<>> ELSE <<cur>>
    IN  IF i > Len(s) THEN done
        ELSE IF s[i] \in pattern THEN findall(s, i + 1, Append(cur, s[i]))
        ELSE done \o findall(s, i + 1, <<>>)

\* float(tok) succeeds: digits with at most one point and at least one digit
float_ok(tok) ==
    /\ \A i \in 1..Len(tok) : tok[i] \in Digits \cup {"."}
    /\ Cardinality({i \in 1..Len(tok) : tok[i] = "."}) <= 1
    /\ \E i \in 1..Len(tok) : tok[i] \in Digits

\* the digits of tok before and after its point
IntDigits(tok) ==
    LET pts == {i \in 1..Len(tok) : tok[i] = "."}
        n   == IF pts = {} THEN Len(tok) ELSE (CHOOSE i \in pts : TRUE) - 1
    IN  [i \in 1..n |-> DigitVal[tok[i]]]
FracDigits(tok) ==
    LET pts == {i \in 1..Len(tok) : tok[i] = "."}
        n   == IF pts = {} THEN Len(tok) ELSE (CHOOSE i \in pts : TRUE)
    IN  [i \in 1..(Len(tok) - n) |-> DigitVal[tok[n + i]]]

\* k = 1000 = 10^3 and m = math.pow(10, 6)
KExp == 3
MExp == 6
\* round(x, 2) keeps two decimals
Decimals == 2

\* round(float(tok) * 10^e, 2), in hundredths: the point moves e + 2 places
\* to the right and what is left of the fraction decides the rounding
\* (an exact half goes to the even neighbour).
round2(tok, e) ==
    LET I    == IntDigits(tok)
        F    == FracDigits(tok)
        n    == e + Decimals
        Fp   == [i \in 1..(IF Len(F) > n THEN Len(F) ELSE n) |->
                    IF i <= Len(F) THEN F[i] ELSE 0]
        kept == I \o SubSeq(Fp, 1, n)
        rest == SubSeq(Fp, n + 1, Len(Fp))
        tail0 == \A i \in 2..Len(rest) : rest[i] = 0
        up   == /\ rest # <<>>
                /\ \/ rest[1] > 5
                   \/ rest[1] = 5 /\ ~tail0
                   \/ rest[1] = 5 /\ tail0 /\ kept[Len(kept)] % 2 = 1
    IN  Norm(IF up THEN Succ(kept) ELSE kept)

\* the for loop of find_salary, from idx on (1-based), acc being the entries
\* already converted
RECURSIVE find_salary_loop(_, _, _, _)
find_salary_loop(s, toks, idx, acc) ==
    IF idx > Len(toks) THEN Return(acc)
    ELSE
        LET tok       == toks[idx]
            check_idx == index(s, tok) + Len(tok)
        IN  IF ~float_ok(tok) THEN Raise("ValueError", <<>>)
            ELSE IF check_idx = Len(s) + 1 \/ ~(s[check_idx] \in {"k", "m"})
                 THEN find_salary_loop(s, toks, idx + 1, Append(acc, round2(tok, 0)))
            ELSE IF s[check_idx] = "k"
                 THEN find_salary_loop(s, toks, idx + 1, Append(acc, round2(tok, KExp)))
            ELSE find_salary_loop(s, toks, idx + 1, Append(acc, round2(tok, MExp)))

\* find_salary had it scanned the string as given, without lower()
find_salary_no_lower(str) ==
    LET s == strip_commas(str)
    IN  find_salary_loop(s, findall(s, 1, <<>>), 1, <<>>)

find_salary(str) ==
    LET s == strip_commas(lower(str))
    IN  find_salary_loop(s, findall(s, 1, <<>>), 1, <<>>)

----------------------------------------------------------------------------
(* cleaning.py: determine_payment_frequency *)

hourly  == << <<"h","r">>, <<"h","o","u","r","l","y">>, <<"h","o","u","r">> >>
monthly == << <<"m","o","n","t","h","l","y">>, <<"m","o">>, <<"m","o","n","t","h">> >>
yearly  == << <<"y","e","a","r","l","y">>, <<"a","n","n","u","a","l">>,
              <<"a","n","n","u","m">>, <<"y","e","a","r">>, <<"y","r">> >>
weekly  == << <<"w","e","e","k">>, <<"w","e","e","k","l","y">> >>

\* for i in cues: if i in salary_string
any_cue(cues, str) == \E n \in 1..Len(cues) : contains(str, cues[n])

\* the thresholds of the magnitude fallback
HourlyMax == 500
YearlyMin == 35000

\* max(xs) and min(xs) of a non-empty list
max(xs) == CHOOSE m \in {xs[i] : i \in 1..Len(xs)} : \A i \in 1..Len(xs) : Leq(xs[i], m)
min(xs) == CHOOSE m \in {xs[i] : i \in 1..Len(xs)} : \A i \in 1..Len(xs) : Leq(m, xs[i])

\* determine_payment_frequency had it tried the cue lists in the order they
\* are declared: hourly, monthly, yearly, weekly
determine_payment_frequency_declared_order(str, sal) ==
    IF any_cue(hourly, str) THEN Return("hourly")
    ELSE IF any_cue(monthly, str) THEN Return("monthly")
    ELSE IF any_cue(yearly, str) THEN Return("yearly")
    ELSE IF any_cue(weekly, str) THEN Return("weekly")
    ELSE IF sal = <<>> THEN Raise("ValueError", "")
    ELSE IF Leq(max(sal), Whole(HourlyMax)) THEN Return("hourly")
    ELSE IF Leq(Whole(YearlyMin), min(sal)) THEN Return("yearly")
    ELSE Return("monthly")

\* determine_payment_frequency had it compared with < and > in the fallback
determine_payment_frequency_strict(str, sal) ==
    IF any_cue(hourly, str) THEN Return("hourly")
    ELSE IF any_cue(yearly, str) THEN Return("yearly")
    ELSE IF any_cue(monthly, str) THEN Return("monthly")
    ELSE IF any_cue(weekly, str) THEN Return("weekly")
    ELSE IF sal = <<>> THEN Raise("ValueError", "")
    ELSE IF Less(max(sal), Whole(HourlyMax)) THEN Return("hourly")
    ELSE IF Less(Whole(YearlyMin), min(sal)) THEN Return("yearly")
    ELSE Return("monthly")

determine_payment_frequency(str, sal) ==
    IF any_cue(hourly, str) THEN Return("hourly")
    ELSE IF any_cue(yearly, str) THEN Return("yearly")
    ELSE IF any_cue(monthly, str) THEN Return("monthly")
    ELSE IF any_cue(weekly, str) THEN Return("weekly")
    ELSE IF sal = <<>> THEN Raise("ValueError", "")
    ELSE IF Leq(max(sal), Whole(HourlyMax)) THEN Return("hourly")
    ELSE IF Leq(Whole(YearlyMin), min(sal)) THEN Return("yearly")
    ELSE Return("monthly")

----------------------------------------------------------------------------
(* cleaning.py: det_salary_range_and_frequency *)

\* the entries of the list  salaries  and of the dictionary: floats and strings
PyFloat(x) == [type |-> "float", str |-> "", float |-> x]
PyStr(s) == [type |-> "str", str |-> s, float |-> <<0>>]

NoDict == [min_salary |-> PyStr(""), max_salary |-> PyStr(""), frequency |-> PyStr("")]

\* salaries  as handed to determine_payment_frequency: what find_salary
\* returned, a single magnitude appended to itself
det_salaries(str) ==
    LET r == find_salary(str)
    IN  IF r.exc # "None" THEN r
        ELSE IF Len(r.val) = 1 THEN Return(Append(r.val, r.val[1]))
        ELSE r

\* salaries.append(frequency)
append_frequency(sal, f) == [i \in 1..Len(sal) |-> PyFloat(sal[i])] \o <<PyStr(f)>>

\* make_dict had it put the smaller of the two magnitudes first
make_dict_ordered(list) ==
    IF Len(list) < 3 THEN Raise("IndexError", NoDict)
    ELSE IF Less(list[2].float, list[1].float)
    THEN Return([min_salary |-> list[2], max_salary |-> list[1], frequency |-> list[3]])
    ELSE Return([min_salary |-> list[1], max_salary |-> list[2], frequency |-> list[3]])

\* d = {'min_salary': salaries[0], 'max_salary': salaries[1],
\*      'frequency': salaries[2]}
make_dict(list) ==
    IF Len(list) < 3 THEN Raise("IndexError", NoDict)
    ELSE Return([min_salary |-> list[1], max_salary |-> list[2], frequency |-> list[3]])

\* the function from the classification on: sal is the list classified and
\* f the outcome of determine_payment_frequency
det_assemble(sal, f) ==
    IF f.exc # "None" THEN Raise(f.exc, NoDict)
    ELSE make_dict(append_frequency(sal, f.val))

\* the function from the duplication on: r is the outcome of det_salaries
det_classify(str, r) ==
    IF r.exc # "None" THEN Raise(r.exc, NoDict)
    ELSE det_assemble(r.val, determine_payment_frequency(str, r.val))

det_salary_range_and_frequency(str) == det_classify(str, det_salaries(str))

----------------------------------------------------------------------------
(* cleaning.py: calculate_annual_compensation, calc_min_comp, calc_max_comp *)

HoursPerWeek == 40
WeeksPerMonth == 4
MonthsPerYear == 12

\* row[bound + '_salary']
bound_salary(row, bound) ==
    IF bound = "min" THEN row.min_salary.float ELSE row.max_salary.float

\* calculate_annual_compensation had it scaled a weekly salary by 52
calculate_annual_compensation_weekly(row, bound) ==
    IF row.frequency = PyStr("hourly")
    THEN Times(Times(Times(bound_salary(row, bound), HoursPerWeek), WeeksPerMonth),
               MonthsPerYear)
    ELSE IF row.frequency = PyStr("monthly")
    THEN Times(bound_salary(row, bound), MonthsPerYear)
    ELSE IF row.frequency = PyStr("weekly")
    THEN Times(bound_salary(row, bound), 52)
    ELSE bound_salary(row, bound)

calculate_annual_compensation(row, bound) ==
    IF row.frequency = PyStr("hourly")
    THEN Times(Times(Times(bound_salary(row, bound), HoursPerWeek), WeeksPerMonth),
               MonthsPerYear)
    ELSE IF row.frequency = PyStr("monthly")
    THEN Times(bound_salary(row, bound), MonthsPerYear)
    ELSE bound_salary(row, bound)

calc_min_comp(row) == calculate_annual_compensation(row, "min")
calc_max_comp(row) == calculate_annual_compensation(row, "max")

----------------------------------------------------------------------------
(* The calls of cleaning.py as a state machine: a salary string comes in,  *)
(* and each function is called on it; the annualisation is applied to the  *)
(* record det_salary_range_and_frequency returned, as in df.apply.         *)

NotCalled(empty) == [exc |-> "NotCalled", val |-> empty]

\* the strings of at most n characters of an alphabet
Strings(alphabet, n) == UNION {[1..k -> alphabet] : k \in 0..n}

RECURSIVE Concat(_)
Concat(ps) == IF ps = <<>> THEN <<>> ELSE ps[1] \o Concat(Tail(ps))

\* character-level salary strings: digits (no 5, so that no value lies
\* half-way between two hundredths, where the binary float decides), a
\* point, both suffixes (one in upper case), a separator, a thousands comma
Alphabet == {"1", "9", ".", "k", "M", "-", ","}
CharInputs == Strings(Alphabet, MaxLen)

\* cue-level salary strings: concatenations of pieces
Pieces ==
    { <<"1">>, <<"9">>, <<"k">>, <<"-">>, <<"h","r">>, <<"h","o","u","r">>,
      <<"m","o">>, <<"y","e","a","r">>, <<"y","r">>, <<"a","n","n","u">>,
      <<"a","l">>, <<"m">>, <<"w","e","e","k">>, <<"Y","r">> }
PieceInputs == {Concat(ps) : ps \in Strings(Pieces, MaxPieces)}

\* magnitude lists around the two thresholds, in hundredths
MagLists ==
    { << <<5,0,0,0,0>> >>, << <<5,0,0,0,1>> >>,
      << <<3,4,9,9,9,9,9>> >>, << <<3,5,0,0,0,0,0>> >>,
      << <<1,0,0>>, <<5,0,0,0,0>> >>, << <<3,5,0,0,0,0,0>>, <<5,0,0,0,0>> >>,
      << <<3,5,0,0,0,0,0>>, <<5,0,0,0,0,0,0>> >>,
      << <<5,0,0,0,0,0,0>>, <<3,4,9,9,9,9,9>> >> }

\* the list [100.0, 500.0] alone
OneMagList == { << <<1,0,0,0,0>>, <<5,0,0,0,0>> >> }

NoTable == [columns |-> {}, rows |-> <<>>]

InitCleaning(inputs) ==
    /\ salary_string \in inputs
    /\ salaries_in = <<>>
    /\ pc = "input"
    /\ salaries = NotCalled(<<>>)
    /\ frequency = NotCalled("")
    /\ classify_args = NotCalled(<<>>)
    /\ d = NotCalled(NoDict)
    /\ comp = NotCalled(<<0>>)
    /\ job_df = NoTable
    /\ cli_df = NoTable
    /\ cli_state_df = NoTable
    /\ city = <<>>
    /\ adjusted = NotCalled(NoTable)

FindSalary ==
    /\ pc = "input"
    /\ salaries' = find_salary(salary_string)
    /\ pc' = "find_salary"
    /\ UNCHANGED <<salary_string, salaries_in, frequency, classify_args, d, comp>>
    /\ UNCHANGED analysis_vars

DeterminePaymentFrequency(mags) ==
    /\ pc = "input"
    /\ \E sal \in mags :
        /\ salaries_in' = sal
        /\ frequency' = determine_payment_frequency(salary_string, sal)
    /\ pc' = "determine_payment_frequency"
    /\ UNCHANGED <<salary_string, salaries, classify_args, d, comp>>
    /\ UNCHANGED analysis_vars

DetSalaryRangeAndFrequency ==
    /\ pc = "input"
    /\ d' = det_salary_range_and_frequency(salary_string)
    /\ classify_args' = det_salaries(salary_string)
    /\ pc' = "det_salary_range_and_frequency"
    /\ UNCHANGED <<salary_string, salaries_in, salaries, frequency, comp>>
    /\ UNCHANGED analysis_vars

CalcMinComp ==
    /\ pc = "det_salary_range_and_frequency"
    /\ d.exc = "None"
    /\ comp' = Return(calc_min_comp(d.val))
    /\ pc' = "calc_min_comp"
    /\ UNCHANGED <<salary_string, salaries_in, salaries, frequency, classify_args, d>>
    /\ UNCHANGED analysis_vars

CalcMaxComp ==
    /\ pc = "det_salary_range_and_frequency"
    /\ d.exc = "None"
    /\ comp' = Return(calc_max_comp(d.val))
    /\ pc' = "calc_max_comp"
    /\ UNCHANGED <<salary_string, salaries_in, salaries, frequency, classify_args, d>>
    /\ UNCHANGED analysis_vars

NextCleaning(mags) ==
    \/ FindSalary
    \/ DeterminePaymentFrequency(mags)
    \/ DetSalaryRangeAndFrequency
    \/ CalcMinComp
    \/ CalcMaxComp

\* the cleaning functions on character-level strings
Spec == InitCleaning(CharInputs) /\ [][NextCleaning(OneMagList)]_vars
\* the cleaning functions on cue-level strings
SpecCues == InitCleaning(PieceInputs) /\ [][NextCleaning(MagLists)]_vars

----------------------------------------------------------------------------
(* analysis.py: calculate_adjusted_salary                                  *)
(*                                                                         *)
(* A DataFrame is its set of columns and its rows in index order; a float  *)
(* cell is NaN or a whole number of hundredths; an index is a whole        *)
(* number.                                                                 *)

\* most rows of the cost-of-living-by-city and -by-state tables
MaxCliRows == 2
MaxStateRows == 1

NaN == [nan |-> TRUE, v |-> 0]
Float(x) == [nan |-> FALSE, v |-> x]
\* pd.notna(x)
notna(x) == ~x.nan

\* df.city.str.cat(df.state, sep=', ')
str_cat(a, b) == a \o <<",", " ">> \o b

\* df['city_state'] = df.city.str.cat(df.state, sep=', ')
with_city_state(df) ==
    [columns |-> df.columns \cup {"city_state"},
     rows |-> [i \in 1..Len(df.rows) |->
                  [c \in (DOMAIN df.rows[i]) \cup {"city_state"} |->
                      IF c = "city_state"
                      THEN str_cat(df.rows[i].city, df.rows[i].state)
                      ELSE df.rows[i][c]]]]

\* re.search('^' + key + '$', text): key is read as a regular expression,
\* in which a point stands for any character and the other characters of
\* the names modelled stand for themselves
anchored_search(key, text) ==
    /\ Len(key) = Len(text)
    /\ \A i \in 1..Len(key) : key[i] = "." \/ key[i] = text[i]

\* series.str.contains('^' + key + '$', regex=True).any()
contains_any(texts, key) == \E i \in 1..Len(texts) : anchored_search(key, texts[i])

\* float(series): a series of one element converts, any other raises
to_float(series) ==
    IF Len(series) = 1 THEN Return(series[1]) ELSE Raise("TypeError", 0)

\* df.loc[df[col] == key, 'cost_of_living_index']
loc_index(rows, col, key) ==
    LET hits == SelectSeq(rows, LAMBDA r : r[col] = key)
    IN  [i \in 1..Len(hits) |-> hits[i].cost_of_living_index]

\* round(mean * (cli / ref), 2) in hundredths, to the nearest
round_ratio(mean, cli, ref) == (2 * mean * cli + ref) \div (2 * ref)

\* the value assigned to df.loc[idx, 'adjusted_salary'] from a looked-up index
scaled(mean, cli, ref) ==
    IF cli.exc # "None" THEN Raise("TypeError", NaN)
    ELSE Return(Float(round_ratio(mean.v, cli.val, ref)))

\* the body of the loop for one job
adjusted_cell(job, cli_rows, state_rows, ref) ==
    IF /\ notna(job.mean_salary)
       /\ contains_any([i \in 1..Len(cli_rows) |-> cli_rows[i].city_state],
                       job.city_state)
    THEN scaled(job.mean_salary,
                to_float(loc_index(cli_rows, "city_state", job.city_state)), ref)
    ELSE IF /\ notna(job.mean_salary)
            /\ contains_any([i \in 1..Len(state_rows) |-> state_rows[i].state],
                            job.state)
    THEN scaled(job.mean_salary,
                to_float(loc_index(state_rows, "state", job.state)), ref)
    ELSE Return(NaN)

\* df.loc[idx, 'adjusted_salary'] = x: the first assignment adds the column,
\* NaN in the rows not yet assigned
set_adjusted(rows, idx, x) ==
    [i \in 1..Len(rows) |->
        [c \in (DOMAIN rows[i]) \cup {"adjusted_salary"} |->
            IF c = "adjusted_salary"
            THEN (IF i = idx THEN x
                  ELSE IF "adjusted_salary" \in DOMAIN rows[i]
                       THEN rows[i].adjusted_salary ELSE NaN)
            ELSE rows[i][c]]]

\* for idx, job in df.iterrows(), from idx on
RECURSIVE iterrows(_, _, _, _, _, _)
iterrows(df, idx, cell, cli_rows, state_rows, ref) ==
    IF cell.exc # "None" THEN Raise(cell.exc, NoTable)
    ELSE IF idx > Len(df.rows) THEN Return(df)
    ELSE iterrows([columns |-> df.columns \cup {"adjusted_salary"},
                   rows |-> set_adjusted(df.rows, idx,
                       adjusted_cell(df.rows[idx], cli_rows, state_rows, ref).val)],
                  idx + 1,
                  adjusted_cell(df.rows[idx], cli_rows, state_rows, ref),
                  cli_rows, state_rows, ref)

\* the function from the reference look-up on
adjust_from(df, cli, cli_state, ref_cli) ==
    IF ref_cli.exc # "None" THEN Raise(ref_cli.exc, NoTable)
    ELSE iterrows(df, 1, Return(NaN), cli.rows, cli_state.rows, ref_cli.val)

\* what the call returns or raises; cli is the city table with city_state
calculate_adjusted_salary(job, cli, cli_state, ref_city) ==
    adjust_from(with_city_state(job), cli, cli_state,
                to_float(loc_index(cli.rows, "city_state", ref_city)))

----------------------------------------------------------------------------
(* The calls of calculate_adjusted_salary on the caller's three tables *)

CityNames == { <<"a","b">>, <<"a",".">> }
StateNames == { <<"I","L">>, <<"I",".">> }
IndexValues == {1, 3}
MeanSalaries == {NaN, Float(10000)}
\* the reference cities asked for
RefCities == { str_cat(<<"a","b">>, <<"I","L">>), str_cat(<<"a",".">>, <<"I","L">>) }

\* the tables of lo..hi rows drawn from a set of rows
Tables(columns, rowset, lo, hi) ==
    {[columns |-> columns, rows |-> rs] : rs \in UNION {[1..k -> rowset] : k \in lo..hi}}

JobTables ==
    Tables({"city", "state", "mean_salary"},
           [city : CityNames, state : StateNames, mean_salary : MeanSalaries],
           1, MaxJobs)
CliTables ==
    Tables({"city", "state", "cost_of_living_index"},
           [city : CityNames, state : {<<"I","L">>}, cost_of_living_index : IndexValues],
           0, MaxCliRows)
CliStateTables ==
    Tables({"state", "cost_of_living_index"},
           [state : StateNames, cost_of_living_index : IndexValues],
           0, MaxStateRows)

InitAnalysis ==
    /\ job_df \in JobTables
    /\ cli_df \in CliTables
    /\ cli_state_df \in CliStateTables
    /\ city = <<>>
    /\ adjusted = NotCalled(NoTable)
    /\ salary_string = <<>>
    /\ salaries_in = <<>>
    /\ pc = "analysis"
    /\ salaries = NotCalled(<<>>)
    /\ frequency = NotCalled("")
    /\ classify_args = NotCalled(<<>>)
    /\ d = NotCalled(NoDict)
    /\ comp = NotCalled(<<0>>)

\* cli_df['city_state'] = ... is an assignment to the caller's table, made
\* before anything can raise
CalculateAdjustedSalary ==
    /\ pc = "analysis"
    /\ \E c \in RefCities :
        /\ city' = c
        /\ adjusted' = calculate_adjusted_salary(job_df, with_city_state(cli_df),
                                                 cli_state_df, c)
    /\ cli_df' = with_city_state(cli_df)
    /\ UNCHANGED <<job_df, cli_state_df>>
    /\ UNCHANGED cleaning_vars

SpecAnalysis == InitAnalysis /\ [][CalculateAdjustedSalary]_vars

----------------------------------------------------------------------------
(* Claims on find_salary *)

NoDigit(str) == \A i \in 1..Len(str) : ~(str[i] \in Digits)

\* C1: for every string that contains no digit, find_salary returns the
\* empty list and raises nothing.
C1_NoDigitGivesEmptyList ==
    (pc = "find_salary" /\ NoDigit(salary_string)) => salaries = Return(<<>>)

\* the string find_salary scans: lower-cased, commas stripped
Scanned(str) == strip_commas(lower(str))

\* the maximal runs of characters of the class [0-9.()?] in s, as
\* <<first, last>> positions
Runs(s) ==
    {r \in (1..Len(s)) \X (1..Len(s)) :
        /\ r[1] <= r[2]
        /\ \A i \in r[1]..r[2] : s[i] \in pattern
        /\ (r[1] = 1 \/ ~(s[r[1] - 1] \in pattern))
        /\ (r[2] = Len(s) \/ ~(s[r[2] + 1] \in pattern))}

\* the texts of the runs of s in order of appearance
Tokens(s) ==
    LET runs == Runs(s)
    IN  [i \in 1..Cardinality(runs) |->
            LET r == CHOOSE q \in runs :
                         Cardinality({o \in runs : o[1] < q[1]}) = i - 1
            IN  SubSeq(s, r[1], r[2])]

\* the character right after the first occurrence of tok in s ("" at the end)
Following(s, tok) ==
    LET p == CHOOSE q \in 1..Len(s) :
                 /\ OccursAt(tok, s, q)
                 /\ \A o \in 1..(q - 1) : ~OccursAt(tok, s, o)
    IN  IF p + Len(tok) <= Len(s) THEN s[p + Len(tok)] ELSE ""

\* the power of ten a following character multiplies by
Scale(c) == IF c = "k" THEN 3 ELSE IF c = "m" THEN 6 ELSE 0

\* tok * 10^e has no digit beyond the hundredths
Exact(tok, e) ==
    \A i \in 1..Len(FracDigits(tok)) : i > e + 2 => FracDigits(tok)[i] = 0

AllNumerals(toks) == \A i \in 1..Len(toks) : float_ok(toks[i])

\* one magnitude per token, the i-th being the i-th token's value times the
\* multiplier of the character following the token text's first occurrence,
\* rounded to two decimals
OnePerToken(s, toks, val) ==
    /\ Len(val) = Len(toks)
    /\ \A i \in 1..Len(val) : val[i] = round2(toks[i], Scale(Following(s, toks[i])))

\* nothing is rounded away from any token's value times its multiplier
AllExact(s, toks) ==
    \A i \in 1..Len(toks) : Exact(toks[i], Scale(Following(s, toks[i])))

----------------------------------------------------------------------------
(* Claims on determine_payment_frequency and det_salary_range_and_frequency *)

Frequencies == {"hourly", "weekly", "monthly", "yearly"}

\* C2: whenever det_salary_range_and_frequency returns a record, whatever
\* the number of numeric tokens, its frequency is one of hourly, weekly,
\* monthly, yearly.
C2_FrequencyIsACadence ==
    (pc = "det_salary_range_and_frequency" /\ d.exc = "None") =>
        \E f \in Frequencies : d.val.frequency = PyStr(f)

\* C3: cues are matched case-insensitively: the record of a salary string
\* has the frequency of the record of the string in lower case.
C3_CuesIgnoreCase ==
    (pc = "det_salary_range_and_frequency" /\ d.exc = "None") =>
        d.val.frequency =
            det_salary_range_and_frequency(lower(salary_string)).val.frequency

\* the cues of each cadence, as the claim lists them
HourlyCues == { <<"h","r">>, <<"h","o","u","r","l","y">>, <<"h","o","u","r">> }
YearlyCues == { <<"y","e","a","r","l","y">>, <<"a","n","n","u","a","l">>,
                <<"a","n","n","u","m">>, <<"y","e","a","r">>, <<"y","r">> }
MonthlyCues == { <<"m","o","n","t","h","l","y">>, <<"m","o">>,
                 <<"m","o","n","t","h">> }
WeeklyCues == { <<"w","e","e","k">>, <<"w","e","e","k","l","y">> }

\* some cue of the set is a substring of str
HasCue(cues, str) ==
    \E c \in cues : \E p \in 1..Len(str) : OccursAt(c, str, p)

\* C5: overlapping cues resolve by fixed priority, hourly before yearly
\* before monthly before weekly, whatever the magnitudes.
C5_CuePriority ==
    pc = "determine_payment_frequency" =>
        /\ HasCue(HourlyCues, salary_string) => frequency = Return("hourly")
        /\ (~HasCue(HourlyCues, salary_string) /\ HasCue(YearlyCues, salary_string))
               => frequency = Return("yearly")
        /\ (/\ ~HasCue(HourlyCues, salary_string)
            /\ ~HasCue(YearlyCues, salary_string)
            /\ HasCue(MonthlyCues, salary_string))
               => frequency = Return("monthly")
        /\ (/\ ~HasCue(HourlyCues, salary_string)
            /\ ~HasCue(YearlyCues, salary_string)
            /\ ~HasCue(MonthlyCues, salary_string)
            /\ HasCue(WeeklyCues, salary_string))
               => frequency = Return("weekly")

\* C5 witness: a string with a monthly and a yearly cue was classified yearly
C5_Witness ==
    /\ pc = "determine_payment_frequency"
    /\ HasCue(MonthlyCues, salary_string)
    /\ HasCue(YearlyCues, salary_string)
    /\ ~HasCue(HourlyCues, salary_string)
    /\ frequency = Return("yearly")

NoCue(str) ==
    /\ ~HasCue(HourlyCues, str)
    /\ ~HasCue(YearlyCues, str)
    /\ ~HasCue(MonthlyCues, str)
    /\ ~HasCue(WeeklyCues, str)

\* every magnitude of the list is at most / at least the whole number n
AllAtMost(sal, n) == \A i \in 1..Len(sal) : Leq(sal[i], Whole(n))
AllAtLeast(sal, n) == \A i \in 1..Len(sal) : Leq(Whole(n), sal[i])

\* C6: with no cue in the string and a non-empty magnitude list, the result
\* is hourly if the maximum is at most 500, else yearly if the minimum is at
\* least 35000, else monthly; never weekly.
C6_MagnitudeFallback ==
    (pc = "determine_payment_frequency" /\ NoCue(salary_string) /\ salaries_in # <<>>) =>
        /\ frequency =
               IF AllAtMost(salaries_in, 500) THEN Return("hourly")
               ELSE IF AllAtLeast(salaries_in, 35000) THEN Return("yearly")
               ELSE Return("monthly")
        /\ frequency # Return("weekly")

\* C6 witness: a string without cue and the list [35000.0, 500.0], whose
\* maximum is above 500 and whose minimum is below 35000, gave monthly
C6_Witness ==
    /\ pc = "determine_payment_frequency"
    /\ NoCue(salary_string)
    /\ salary_string # <<>>
    /\ salaries_in = << <<3,5,0,0,0,0,0>>, <<5,0,0,0,0>> >>
    /\ frequency = Return("monthly")

\* C7: min_salary is the first magnitude find_salary extracts and max_salary
\* the second, in that order; a single magnitude is duplicated before the
\* classification, and is both min_salary and max_salary.
C7_MinMaxAreFirstAndSecond ==
    LET found == find_salary(salary_string)
    IN  (/\ pc = "det_salary_range_and_frequency"
         /\ found.exc = "None"
         /\ Len(found.val) >= 1) =>
            /\ d.exc = "None"
            /\ d.val.min_salary = PyFloat(found.val[1])
            /\ Len(found.val) >= 2 => d.val.max_salary = PyFloat(found.val[2])
            /\ Len(found.val) = 1 =>
                   /\ classify_args = Return(<<found.val[1], found.val[1]>>)
                   /\ d.val.max_salary = PyFloat(found.val[1])

\* C7 witness: a record whose min_salary is above its max_salary
C7_Witness ==
    /\ pc = "det_salary_range_and_frequency"
    /\ d.exc = "None"
    /\ Less(d.val.max_salary.float, d.val.min_salary.float)

\* the bound an annualisation selects
Selected == IF pc = "calc_min_comp" THEN d.val.min_salary.float
            ELSE d.val.max_salary.float

\* C8: the annual compensation is the selected bound times 1920 for hourly,
\* times 12 for monthly, and the bound itself otherwise (yearly, and weekly
\* too); calc_min_comp selects min_salary and calc_max_comp max_salary.
C8_AnnualMultipliers ==
    pc \in {"calc_min_comp", "calc_max_comp"} =>
        comp = Return(IF d.val.frequency = PyStr("hourly") THEN Times(Selected, 1920)
                      ELSE IF d.val.frequency = PyStr("monthly") THEN Times(Selected, 12)
                      ELSE Selected)

\* C8 witness: a weekly record with unequal bounds annualised by calc_max_comp
C8_Witness ==
    /\ pc = "calc_max_comp"
    /\ d.val.frequency = PyStr("weekly")
    /\ d.val.min_salary # d.val.max_salary
    /\ comp = Return(d.val.max_salary.float)

----------------------------------------------------------------------------
(* Claims on calculate_adjusted_salary *)

\* C9: a call, successful or failing, leaves the caller's three tables as
\* they were: the same columns, the same values.
C9_InputsNotMutated ==
    [][/\ cli_df' = cli_df
       /\ cli_state_df' = cli_state_df
       /\ job_df' = job_df]_vars

\* the 'city, state' key of a row
Key(row) == row.city \o <<",", " ">> \o row.state

\* the rows of the city and of the state table equal to a key
CityRows(key) == {i \in 1..Len(cli_df.rows) : Key(cli_df.rows[i]) = key}
StateRows(state) == {i \in 1..Len(cli_state_df.rows) : cli_state_df.rows[i].state = state}

\* the index of the only row of a set
IndexOf(rows, is) == rows[CHOOSE i \in is : TRUE].cost_of_living_index

\* what the claim gives a job: missing without mean salary, scaled by the
\* city's index if its key equals a key of the city table, else by the
\* state's if its state equals a state of the state table, else missing
\* (in hundredths, as the cells of the model are)
Claimed(job) ==
    IF job.mean_salary.nan THEN NaN
    ELSE IF CityRows(Key(job)) # {}
    THEN Float(round_ratio(job.mean_salary.v,
                           IndexOf(cli_df.rows, CityRows(Key(job))),
                           IndexOf(cli_df.rows, CityRows(city))))
    ELSE IF StateRows(job.state) # {}
    THEN Float(round_ratio(job.mean_salary.v,
                           IndexOf(cli_state_df.rows, StateRows(job.state)),
                           IndexOf(cli_df.rows, CityRows(city))))
    ELSE NaN

\* the tables name each city and each state once, the reference city too
WellFormedTables ==
    /\ Cardinality(CityRows(city)) = 1
    /\ \A i \in 1..Len(cli_df.rows) : Cardinality(CityRows(Key(cli_df.rows[i]))) = 1
    /\ \A i \in 1..Len(cli_state_df.rows) :
           Cardinality(StateRows(cli_state_df.rows[i].state)) = 1

\* C10: each job gets the adjusted salary of the first that applies: no
\* mean salary, missing; its 'city, state' equal to a key of the city
\* table, the city's ratio; its state equal to a state of the state table,
\* the state's ratio; otherwise missing -- by string equality only.
C10_ExactMatchCityBeforeState ==
    (adjusted.exc # "NotCalled" /\ WellFormedTables) =>
        /\ adjusted.exc = "None"
        /\ \A i \in 1..Len(job_df.rows) :
               adjusted.val.rows[i].adjusted_salary = Claimed(job_df.rows[i])

====
